---- MODULE Spec2Model ----
(***************************************************************************)
(* Model of the video-frames-extractor repository:                         *)
(*   src/Extractor/Cataract1k.py           interval tables (frame,endFrame)*)
(*   src/Extractor/cataract101_subvideo.py start-frame event tables        *)
(*   src/Extractor/cataract21_subvideo.py  per-frame label streams         *)
(*   src/phase_csv.py                      idle insertion for a phase CSV  *)
(*   src/frame_extractor.py                still-frame sampling            *)
(*                                                                         *)
(* Strings that the code only compares are atoms; strings that the code    *)
(* builds (file names) are sequences of tokens, digits being the one-      *)
(* character strings "0".."9".  Phase numbers of the cataract101 tables    *)
(* are written as their decimal text ("5"), NaN as the atom "NaN".  The    *)
(* time columns (sec, endSec, Start Time (s), ...) are carried by no       *)
(* control decision of the code and are left out of the rows.              *)
(***************************************************************************)
EXTENDS Integers, Sequences, FiniteSets, TLC

VARIABLES
    variant,          \* which extractor script runs: "1k", "101" or "21"
    listing,          \* directory entries the main loop has still to visit
    cur,              \* the entry process_video is working on
    pc,               \* position of the extractor
    df,               \* the DataFrame process_video iterates over
    idx,              \* row index (1k, 101) or frame_number (21) of the loop
    phase_counters,   \* defaultdict(int): label -> occurrences so far
    writers,          \* 21: dict label -> sink; 1k, 101: the local `writer`
    previous_phase,   \* 21: label of the previous frame, "None" at start
    sinks,            \* every cv2.VideoWriter created for the current case
    cap,              \* the cv2.VideoCapture of the current case
    allPaths,         \* output paths of every create_writer call of the run
    log,              \* the case-level messages printed so far
    tlPc, tlRows, tlTotal, tlOut,   \* timeline builders
    sPc, sIn, sRow, sI, sSel        \* save_frames of frame_extractor.py

vars == <<variant, listing, cur, pc, df, idx, phase_counters, writers,
          previous_phase, sinks, cap, allPaths, log,
          tlPc, tlRows, tlTotal, tlOut, sPc, sIn, sRow, sI, sSel>>

splitVars == <<variant, listing, cur, pc, df, idx, phase_counters, writers,
               previous_phase, sinks, cap, allPaths, log>>
tlVars == <<tlPc, tlRows, tlTotal, tlOut>>
sVars == <<sPc, sIn, sRow, sI, sSel>>

(***************************************************************************)
(* Bounds                                                                  *)
(***************************************************************************)
MaxFrame == 2       \* annotation frame numbers range over 0..MaxFrame
MaxRows == 2        \* rows of an annotation table
MaxLabels == 3      \* length of a per-frame label stream
MaxBad == 1         \* frames of one video that fail to decode
TlMaxFrame == 3     \* frame numbers of the timeline builders' rows
TlMaxRows == 2      \* rows given to the timeline builders
DsMaxRows == 3      \* rows / labels per file in a dataset run
MaxFiles == 2       \* directory entries of a dataset run

(***************************************************************************)
(* Small helpers                                                           *)
(***************************************************************************)
Min(a, b) == IF a < b THEN a ELSE b

Range(s) == {s[i] : i \in 1..Len(s)}

SeqsUpTo(S, n) == UNION {[1..k -> S] : k \in 0..n}

Digit(d) ==
    CASE d = 0 -> "0" [] d = 1 -> "1" [] d = 2 -> "2" [] d = 3 -> "3"
      [] d = 4 -> "4" [] d = 5 -> "5" [] d = 6 -> "6" [] d = 7 -> "7"
      [] d = 8 -> "8" [] d = 9 -> "9"

DigitVal(c) == CHOOSE d \in 0..9 : Digit(d) = c

\* str(n) for n >= 0
RECURSIVE DigitsOf(_)
DigitsOf(n) == IF n < 10 THEN <<Digit(n)>>
               ELSE Append(DigitsOf(n \div 10), Digit(n % 10))

\* int(s) for a string of decimal digits
RECURSIVE IntOf(_)
IntOf(ds) == IF Len(ds) = 0 THEN 0
             ELSE 10 * IntOf(SubSeq(ds, 1, Len(ds) - 1)) + DigitVal(ds[Len(ds)])

\* f"{n:04d}": at least four digits, zeros on the left
RECURSIVE ZeroPad(_, _)
ZeroPad(ds, w) == IF Len(ds) >= w THEN ds ELSE ZeroPad(<<"0">> \o ds, w)

Format04d(n) == ZeroPad(DigitsOf(n), 4)

\* the characters of a label as they appear inside a file name
LabelTokens(phase) ==
    CASE phase = "TonifyingAntibiotic_1" -> <<"TonifyingAntibiotic", "_", "1">>
      [] phase = "TonifyingAntibiotic_2" -> <<"TonifyingAntibiotic", "_", "2">>
      [] OTHER -> <<phase>>

(***************************************************************************)
(* Label tables                                                            *)
(***************************************************************************)
NaN == "NaN"
None == "None"

PHASE_MAPPING ==
    [k \in {"Viscoelastic", "Capsulorhexis", "Hydrodissection",
            "Phacoemulsification", "Irrigation/Aspiration",
            "Capsule Pulishing", "Lens Implantation", "Lens positioning",
            "Viscoelastic_Suction", "Tonifying/Antibiotics",
            "Anterior_Chamber Flushing"} |->
        CASE k = "Viscoelastic" -> "Viscoelastic"
          [] k = "Capsulorhexis" -> "Capsulorhexis"
          [] k = "Hydrodissection" -> "Hydrodissection"
          [] k = "Phacoemulsification" -> "Phaco"
          [] k = "Irrigation/Aspiration" -> "IrrigationAspiration"
          [] k = "Capsule Pulishing" -> "CortexRemoval"
          [] k = "Lens Implantation" -> "LensImplantation"
          [] k = "Lens positioning" -> "LensPositioning"
          [] k = "Viscoelastic_Suction" -> "ViscoelasticSuction"
          [] k = "Tonifying/Antibiotics" -> "TonifyingAntibiotics"
          [] k = "Anterior_Chamber Flushing" -> "AnteriorChamberFlushing"]

phase_mapping101 ==
    [k \in {"0", "1", "2", "3", "4", "5", "6", "7", "8", "9", "10"} |->
        CASE k = "0" -> "Idle"
          [] k = "1" -> "Incision"
          [] k = "2" -> "Viscoelastic"
          [] k = "3" -> "Capsulorhexis"
          [] k = "4" -> "Hydrodissection"
          [] k = "5" -> "Phacoemulsification"
          [] k = "6" -> "IrrigationAspiration"
          [] k = "7" -> "CortexRemoval"
          [] k = "8" -> "LensImplantation"
          [] k = "9" -> "ViscoelasticSuction"
          [] k = "10" -> "TonifyingAntibiotic"]

phase_mapping21 ==
    [k \in {"not_initialized", "Incision", "Viscoelasticum", "Rhexis",
            "Hydrodissektion", "Phako", "Irrigation-Aspiration",
            "Kapselpolishing", "Linsenimplantation", "Visco-Absaugung",
            "Tonisieren", "Antibiotikum"} |->
        CASE k = "not_initialized" -> "Idle"
          [] k = "Incision" -> "Incision"
          [] k = "Viscoelasticum" -> "Viscoelastic"
          [] k = "Rhexis" -> "Capsulorhexis"
          [] k = "Hydrodissektion" -> "Hydrodissection"
          [] k = "Phako" -> "Phaco"
          [] k = "Irrigation-Aspiration" -> "Irrigation"
          [] k = "Kapselpolishing" -> "CortexRemoval"
          [] k = "Linsenimplantation" -> "LensImplantation"
          [] k = "Visco-Absaugung" -> "ViscoelasticSuction"
          [] k = "Tonisieren" -> "TonifyingAntibiotic_1"
          [] k = "Antibiotikum" -> "TonifyingAntibiotic_2"]

\* Cataract1k.py: PHASE_MAPPING.get(phase_name, phase_name)
map_phase_name(phase_name) ==
    IF phase_name \in DOMAIN PHASE_MAPPING THEN PHASE_MAPPING[phase_name]
    ELSE phase_name

\* cataract101: df['Phase'].map(phase_mapping); Series.map with a dict gives
\* NaN for a value that is not a key
MapPhaseNumber(phase) ==
    IF phase \in DOMAIN phase_mapping101 THEN phase_mapping101[phase] ELSE NaN

map_phase_numbers_to_names(rows) ==
    [i \in 1..Len(rows) |->
        [FrameNo |-> rows[i].FrameNo, Phase |-> rows[i].Phase,
         PhaseName |-> MapPhaseNumber(rows[i].Phase)]]

\* cataract21: df['Phase Name'].replace(phase_mapping) leaves other values
ReplacePhase(name) ==
    IF name \in DOMAIN phase_mapping21 THEN phase_mapping21[name] ELSE name

map_phases(rows) ==
    [i \in 1..Len(rows) |->
        [FrameNumber |-> rows[i].FrameNumber,
         PhaseName |-> ReplacePhase(rows[i].PhaseName)]]

(***************************************************************************)
(* pandas sort_values: the default kind is quicksort, which is not stable, *)
(* so rows that tie on the key may come out in either order.               *)
(***************************************************************************)
RECURSIVE OrdersOf(_, _, _)
OrdersOf(rows, keys, S) ==
    IF S = {} THEN {<<>>}
    ELSE LET mins == {m \in S : \A j \in S : keys[m] <= keys[j]}
         IN  UNION {{<<rows[m]>> \o t : t \in OrdersOf(rows, keys, S \ {m})} :
                    m \in mins}

sort_values(rows, keys) == OrdersOf(rows, keys, 1..Len(rows))

(***************************************************************************)
(* Cataract1k.py insert_idle_phases                                        *)
(***************************************************************************)
IdlePhase1k(current_row, next_row) ==
    [comment |-> "Idle", frame |-> current_row.endFrame + 1,
     endFrame |-> next_row.frame - 1]

RECURSIVE InsertIdleLoop(_, _)
InsertIdleLoop(rows, i) ==
    IF i > Len(rows) - 1 THEN <<>>
    ELSE LET current_row == rows[i]
             next_row == rows[i + 1]
             frame_gap == next_row.frame - current_row.endFrame - 1
         IN  <<current_row>>
             \o (IF frame_gap > 0 THEN <<IdlePhase1k(current_row, next_row)>>
                 ELSE <<>>)
             \o InsertIdleLoop(rows, i + 1)

\* defined for a non-empty table; df.iloc[-1] raises IndexError on an empty one
insert_idle_phases(rows) == InsertIdleLoop(rows, 1) \o <<rows[Len(rows)]>>

(***************************************************************************)
(* phase_csv.py process_phases, on the table already sorted by Start Frame *)
(***************************************************************************)
IdlePhaseCsv(startFrame, endFrame) ==
    [phase_name |-> "Idle", StartFrame |-> startFrame, EndFrame |-> endFrame]

RECURSIVE PhasesLoop(_, _)
PhasesLoop(rows, i) ==
    IF i > Len(rows) THEN <<>>
    ELSE <<rows[i]>>
         \o (IF i < Len(rows) /\ rows[i + 1].StartFrame - rows[i].EndFrame > 1
             THEN <<IdlePhaseCsv(rows[i].EndFrame + 1, rows[i + 1].StartFrame - 1)>>
             ELSE <<>>)
         \o PhasesLoop(rows, i + 1)

all_phases(rows) ==
    (IF rows[1].StartFrame > 0
     THEN <<IdlePhaseCsv(0, rows[1].StartFrame - 1)>> ELSE <<>>)
    \o PhasesLoop(rows, 1)

StartKeys(rows) == [i \in 1..Len(rows) |-> rows[i].StartFrame]

\* every table process_phases can write for the rows of the input file
process_phases(rows) ==
    UNION {sort_values(all_phases(sorted), StartKeys(all_phases(sorted))) :
           sorted \in sort_values(rows, StartKeys(rows))}

(***************************************************************************)
(* Timeline builders run on their own: a table of annotation rows of a     *)
(* video of tlTotal frames is read, then one builder is applied to it.     *)
(***************************************************************************)
TlLabels == {"Phacoemulsification", "Incision"}

Rows1k(maxFrame, labels) ==
    {[comment |-> c, frame |-> s, endFrame |-> e] :
        c \in labels, s \in 0..maxFrame, e \in 0..maxFrame} 

RowsCsv(maxFrame, labels) ==
    {[phase_name |-> c, StartFrame |-> s, EndFrame |-> e] :
        c \in labels, s \in 0..maxFrame, e \in 0..maxFrame}

TlInit ==
    /\ tlTotal \in 1..(TlMaxFrame + 1)
    /\ \/ /\ tlPc = "read_1k"
          /\ tlRows \in SeqsUpTo({r \in Rows1k(tlTotal - 1, TlLabels) :
                                     r.frame <= r.endFrame}, TlMaxRows)
       \/ /\ tlPc = "read_phase_csv"
          /\ tlRows \in SeqsUpTo({r \in RowsCsv(tlTotal - 1, TlLabels) :
                                     r.StartFrame <= r.EndFrame}, TlMaxRows)
    /\ tlOut = <<>>

TlIdle == tlPc = "off" /\ tlRows = <<>> /\ tlTotal = 0 /\ tlOut = <<>>

RunInsertIdlePhases ==
    /\ tlPc = "read_1k"
    /\ IF Len(tlRows) = 0
       THEN tlPc' = "IndexError" /\ tlOut' = tlOut
       ELSE tlPc' = "insert_idle_phases" /\ tlOut' = insert_idle_phases(tlRows)
    /\ UNCHANGED <<tlRows, tlTotal>>
    /\ UNCHANGED <<splitVars, sVars>>

RunProcessPhases ==
    /\ tlPc = "read_phase_csv"
    /\ IF Len(tlRows) = 0
       THEN tlPc' = "IndexError" /\ tlOut' = tlOut
       ELSE tlPc' = "process_phases" /\ tlOut' \in process_phases(tlRows)
    /\ UNCHANGED <<tlRows, tlTotal>>
    /\ UNCHANGED <<splitVars, sVars>>

(***************************************************************************)
(* File names.  A directory entry is <tag><digits><tail><ext>; the regular *)
(* expression case_(\d+) captures <digits> when <tag> spells "case_".      *)
(***************************************************************************)
TargetExt(v) == IF v = "1k" THEN "_annotations_phases.csv" ELSE ".mp4"

\* re.search(r'case_(\d+)', filename, re.IGNORECASE)
MatchIgnoreCase(name) == name.tag \in {"case_", "CASE_"}

\* cataract101 main: re.search(r'case_(\d+)', filename)
MatchCase(name) == name.tag = "case_"

get_case_number_from_filename(name) == name.digits

(***************************************************************************)
(* create_writer: the occurrence suffix, the file name and the path        *)
(***************************************************************************)
Counter(counters, phase) ==
    IF phase \in DOMAIN counters THEN counters[phase] ELSE 0

\* phase_counters[phase] += 1
Increment(counters, phase) ==
    [p \in DOMAIN counters \cup {phase} |->
        IF p = phase THEN Counter(counters, phase) + 1 ELSE counters[p]]

\* the suffix appended to the first occurrence as well
OccurrenceSuffixAlways(k) == <<"_">> \o DigitsOf(k)

\* if phase_counters[phase] > 1: output_filename += f"_{phase_counters[phase]}"
OccurrenceSuffix(k) == IF k > 1 THEN <<"_">> \o DigitsOf(k) ELSE <<>>

CaseNumberStr(v, case_number) ==
    IF v = "21" THEN <<"ID", "0", "0">> \o case_number
    ELSE <<"ID">> \o Format04d(IntOf(case_number))

DatasetTag(v) ==
    CASE v = "1k" -> "Cataract1k_" [] v = "101" -> "Cataract101_"
      [] v = "21" -> "Cataract21_"

OutputFilename(v, phase, case_number, k) ==
    <<DatasetTag(v)>> \o CaseNumberStr(v, case_number) \o <<"_">>
    \o LabelTokens(phase) \o OccurrenceSuffix(k) \o <<".mp4">>

\* os.path.join(output_base_dir, phase, output_filename)
OutputPath(v, phase, case_number, k) ==
    [dir |-> phase, file |-> OutputFilename(v, phase, case_number, k)]

NewSink(v, phase, case_number, k, at) ==
    [path |-> OutputPath(v, phase, case_number, k), phase |-> phase,
     occ |-> k, at |-> at, frames |-> <<>>, released |-> 0]

\* writer.release()
ReleaseSink(ss, j) == [ss EXCEPT ![j].released = @ + 1]

\* writer.write(frame), for each frame of frame_numbers in turn
WriteSink(ss, j, frame_numbers) ==
    [ss EXCEPT ![j].frames = @ \o frame_numbers]

(***************************************************************************)
(* cap.read(): the frame at the read position, or failure                  *)
(***************************************************************************)
ReadOk(pos, total, bad) == pos >= 0 /\ pos < total /\ pos \notin bad

\* the inner loop of the interval variants: for frame_number in
\* range(start_frame, end_frame + 1), stop at the first failed read
StopFrame(start_frame, end_frame, total, bad) ==
    LET failing == {f \in start_frame..end_frame : ~ReadOk(f, total, bad)}
    IN  IF failing = {} THEN end_frame + 1
        ELSE CHOOSE f \in failing : \A g \in failing : f <= g

WrittenFrames(start_frame, end_frame, total, bad) ==
    LET stop == StopFrame(start_frame, end_frame, total, bad)
    IN  [i \in 1..(stop - start_frame) |-> start_frame + i - 1]

(***************************************************************************)
(* cataract101 generate_csv_files, for the rows of one VideoID             *)
(***************************************************************************)
FrameKeys(rows) == [i \in 1..Len(rows) |-> rows[i].FrameNo]

generate_csv_files(group) ==
    {<<[FrameNo |-> 0, Phase |-> "0"]>> \o sorted :
        sorted \in sort_values(group, FrameKeys(group))}

(***************************************************************************)
(* Inputs: directory entries with the annotation table and the video that  *)
(* belong to them.  ann is the table read from the annotation file, total  *)
(* the frame count of the video, bad the frames that fail to decode, pair  *)
(* whether the counterpart file (video or table) exists, opens whether     *)
(* cv2.VideoCapture can open the video.                                    *)
(***************************************************************************)
Labels1k == {"Phacoemulsification", "Incision"}
Phases101 == {"0", "5", "11"}
Labels21 == {"not_initialized", "Idle", "Antibiotikum", "TonifyingAntibiotic"}

Rows101 == {[FrameNo |-> f, Phase |-> p] : f \in 0..MaxFrame, p \in Phases101}

Stream(labels) ==
    [i \in 1..Len(labels) |-> [FrameNumber |-> i - 1, PhaseName |-> labels[i]]]

Ann(v) ==
    CASE v = "1k" -> SeqsUpTo({r \in Rows1k(MaxFrame, Labels1k) :
                                  r.frame <= r.endFrame}, MaxRows)
      [] v = "101" -> SeqsUpTo(Rows101, MaxRows) \ {<<>>}
      [] v = "21" -> {Stream(l) : l \in SeqsUpTo(Labels21, MaxLabels)}

Contents(v) ==
    {[ann |-> a, total |-> t, bad |-> b] :
        a \in Ann(v),
        t \in 1..(MaxFrame + 1),
        b \in {x \in SUBSET (0..MaxFrame) : Cardinality(x) <= MaxBad}}

\* the tables of a run over several files: k rows of one frame each with
\* the labels X, Y, X, Y, ..., two rows X, X, and one row whose frame fails
DsLabel(i, x, y) == IF i % 2 = 1 THEN x ELSE y

DsAnn(v, k, x, y) ==
    CASE v = "1k" -> [i \in 1..k |->
                         [comment |-> DsLabel(i, x, y),
                          frame |-> i - 1, endFrame |-> i - 1]]
      [] v = "101" -> [i \in 1..k |->
                         [FrameNo |-> i - 1, Phase |-> DsLabel(i, x, y)]]
      [] v = "21" -> Stream([i \in 1..k |-> DsLabel(i, x, y)])

DsX(v) == CASE v = "1k" -> "Phacoemulsification" [] v = "101" -> "5"
            [] v = "21" -> "not_initialized"

DsY(v) == CASE v = "1k" -> "Incision" [] v = "101" -> "1"
            [] v = "21" -> "Antibiotikum"

DsContents(v) ==
    {[ann |-> DsAnn(v, k, DsX(v), DsY(v)),
      total |-> IF k = 0 THEN 1 ELSE k, bad |-> {}] :
        k \in (IF v = "101" THEN 1 ELSE 0)..DsMaxRows}
    \cup {[ann |-> DsAnn(v, 2, DsX(v), DsX(v)), total |-> 2, bad |-> {}],
          [ann |-> DsAnn(v, 1, DsX(v), DsY(v)), total |-> 1, bad |-> {0}]}

\* the tables of the videos that cannot be opened
DsUnopened(v) == {DsAnn(v, 1, DsX(v), DsY(v))}

Names(tags, digits, tails) ==
    {[tag |-> t, digits |-> d, tail |-> x] :
        t \in tags, d \in digits, x \in tails}

SpecNames == Names({"case_", "video_"}, {<<"5">>, <<"0", "5">>}, {""})
DsNames == Names({"case_", "CASE_", "video_"}, {<<"5">>}, {""})
           \cup Names({"case_"}, {<<"5">>}, {"_b"})
           \cup Names({"case_"}, {<<"0", "5">>, <<"6">>}, {""})

\* the main loop reaches process_video's read of the annotation table
Readable(v, name) ==
    CASE v = "1k" -> MatchIgnoreCase(name)
      [] v = "21" -> MatchIgnoreCase(name)
      [] v = "101" -> MatchCase(name) /\ name.digits[1] # "0"

Entry(name, ext, pair, opens, ann, total, bad) ==
    [name |-> name, ext |-> ext, pair |-> pair, opens |-> opens,
     ann |-> ann, total |-> total, bad |-> bad]

NoEntry == Entry([tag |-> "", digits |-> <<>>, tail |-> ""], "", FALSE, FALSE,
                 <<>>, 0, {})

Entries(v, names, contents, unopened) ==
    {Entry(n, TargetExt(v), TRUE, TRUE, c.ann, c.total, c.bad) :
        n \in {x \in names : Readable(v, x)}, c \in contents}
    \cup {Entry(n, TargetExt(v), TRUE, FALSE, a, 0, {}) :
        n \in {x \in names : Readable(v, x)}, a \in unopened}
    \cup {Entry(n, TargetExt(v), FALSE, FALSE, <<>>, 0, {}) : n \in names}
    \cup {Entry(n, TargetExt(v), TRUE, FALSE, <<>>, 0, {}) :
        n \in {x \in names : v # "101" /\ ~Readable(v, x)}}
    \cup {Entry(n, ".txt", FALSE, FALSE, <<>>, 0, {}) : n \in names}

\* entries of one directory: distinct file names; in cataract101 the table
\* of a case number is one file, in Cataract1k its video is one file
Consistent(v, l) ==
    \A i, j \in 1..Len(l) :
        /\ i # j => <<l[i].name, l[i].ext>> # <<l[j].name, l[j].ext>>
        /\ v = "101" /\ l[i].name.digits = l[j].name.digits
              /\ Readable(v, l[i].name) /\ Readable(v, l[j].name)
              /\ l[i].ext = l[j].ext
           => l[i].ann = l[j].ann /\ l[i].pair = l[j].pair
        /\ v = "1k" /\ l[i].name.digits = l[j].name.digits
              /\ l[i].ext = l[j].ext
           => /\ l[i].pair = l[j].pair
              /\ (l[i].pair /\ Readable(v, l[i].name) /\ Readable(v, l[j].name)
                    => /\ l[i].opens = l[j].opens
                       /\ l[i].total = l[j].total
                       /\ l[i].bad = l[j].bad)

EmptyMap == [p \in {} |-> 0]

SplitInit(names, maxFiles, full) ==
    /\ variant \in {"1k", "101", "21"}
    /\ \E k \in 1..maxFiles :
          listing \in {l \in [1..k ->
                              IF full
                              THEN Entries(variant, names, Contents(variant),
                                           Ann(variant))
                              ELSE Entries(variant, names, DsContents(variant),
                                           DsUnopened(variant))] :
                          Consistent(variant, l)}
    /\ pc = IF variant = "101" THEN "generate" ELSE "main"
    /\ cur = NoEntry
    /\ df = <<>>
    /\ idx = 0
    /\ phase_counters = EmptyMap
    /\ writers = EmptyMap
    /\ previous_phase = None
    /\ sinks = <<>>
    /\ cap = [open |-> FALSE, pos |-> 0]
    /\ allPaths = <<>>
    /\ log = <<>>

SplitIdle ==
    /\ variant = "off" /\ listing = <<>> /\ pc = "off" /\ cur = NoEntry
    /\ df = <<>> /\ idx = 0 /\ phase_counters = EmptyMap /\ writers = EmptyMap
    /\ previous_phase = None /\ sinks = <<>>
    /\ cap = [open |-> FALSE, pos |-> 0] /\ allPaths = <<>> /\ log = <<>>

(***************************************************************************)
(* The main loops: process_all_videos (Cataract1k), main (cataract101,     *)
(* cataract21).  No loop catches an exception, so a raise ends the run.    *)
(***************************************************************************)
File == Head(listing)

AtFile == pc = "main" /\ listing # <<>>

caseVars == <<cur, df, idx, phase_counters, writers, previous_phase, sinks,
              cap>>

\* cataract101 main, step 1: the per-video tables are written before any
\* video is read; entries with the same case number read the same table
GenerateCsvFiles ==
    /\ pc = "generate"
    /\ \E l \in [1..Len(listing) ->
                    UNION {{[listing[i] EXCEPT !.ann = g] :
                               g \in IF listing[i].ann = <<>> THEN {<<>>}
                                     ELSE generate_csv_files(listing[i].ann)} :
                           i \in 1..Len(listing)}] :
          /\ \A i \in 1..Len(l) :
                \E g \in (IF listing[i].ann = <<>> THEN {<<>>}
                          ELSE generate_csv_files(listing[i].ann)) :
                    l[i] = [listing[i] EXCEPT !.ann = g]
          /\ Consistent(variant, l)
          /\ listing' = l
    /\ pc' = "main"
    /\ UNCHANGED <<variant, allPaths, log, tlVars, sVars>>
    /\ UNCHANGED caseVars

\* a file the loop's endswith test passes over
SkipOtherFile ==
    /\ AtFile
    /\ File.ext # TargetExt(variant)
    /\ listing' = Tail(listing)
    /\ UNCHANGED <<variant, pc, allPaths, log, tlVars, sVars>>
    /\ UNCHANGED caseVars

\* get_case_number_from_filename raises ValueError: in Cataract1k from
\* process_all_videos, in cataract21 from process_video
RaiseNoCaseNumber ==
    /\ AtFile
    /\ File.ext = TargetExt(variant)
    /\ ~MatchIgnoreCase(File.name)
    /\ \/ variant = "1k"
       \/ variant = "21" /\ File.pair
    /\ listing' = Tail(listing)
    /\ pc' = "ValueError"
    /\ UNCHANGED <<variant, allPaths, log, tlVars, sVars>>
    /\ UNCHANGED caseVars

\* cataract101 main: "Could not extract video ID from filename"
WarnNoVideoId ==
    /\ AtFile
    /\ File.ext = TargetExt(variant)
    /\ variant = "101"
    /\ ~MatchCase(File.name)
    /\ listing' = Tail(listing)
    /\ UNCHANGED <<variant, pc, allPaths, tlVars, sVars>>
    /\ UNCHANGED caseVars
    /\ log' = Append(log, "warning_no_video_id")

\* "No corresponding video file / CSV file found"
WarnNoPair ==
    /\ AtFile
    /\ File.ext = TargetExt(variant)
    /\ \/ variant = "1k" /\ MatchIgnoreCase(File.name)
       \/ variant = "101" /\ MatchCase(File.name)
       \/ variant = "21"
    /\ ~File.pair
    /\ listing' = Tail(listing)
    /\ UNCHANGED <<variant, pc, allPaths, tlVars, sVars>>
    /\ UNCHANGED caseVars
    /\ log' = Append(log, "warning_no_pair")

Enters == /\ AtFile
          /\ File.ext = TargetExt(variant)
          /\ IF variant = "101" THEN MatchCase(File.name)
             ELSE MatchIgnoreCase(File.name)
          /\ File.pair

\* process_video on a table without rows: Cataract1k df.iloc[-1] raises
\* IndexError, cataract21 pd.read_csv(header=None) raises EmptyDataError
EmptyTable ==
    /\ Enters
    /\ Len(File.ann) = 0
    /\ listing' = Tail(listing)
    /\ cur' = File
    /\ pc' = IF variant = "1k" THEN "IndexError" ELSE "EmptyDataError"
    /\ UNCHANGED <<variant, allPaths, log, tlVars, sVars>>
    /\ UNCHANGED <<df, idx, phase_counters, writers, previous_phase, sinks,
                   cap>>

ReadTable(v, ann) ==
    CASE v = "1k" -> insert_idle_phases(ann)
      [] v = "101" -> map_phase_numbers_to_names(ann)
      [] v = "21" -> map_phases(ann)

\* process_video: "Error: Could not open video file", return
OpenFailed ==
    /\ Enters
    /\ Len(File.ann) > 0
    /\ ~File.opens
    /\ listing' = Tail(listing)
    /\ cur' = File
    /\ df' = ReadTable(variant, File.ann)
    /\ cap' = [open |-> FALSE, pos |-> 0]
    /\ UNCHANGED <<variant, pc, allPaths, tlVars, sVars>>
    /\ UNCHANGED <<idx, phase_counters, writers, previous_phase, sinks>>
    /\ log' = Append(log, "error_could_not_open")

\* process_video up to the loop over rows (1k, 101) or frames (21)
StartCase ==
    /\ Enters
    /\ Len(File.ann) > 0
    /\ File.opens
    /\ listing' = Tail(listing)
    /\ cur' = File
    /\ df' = ReadTable(variant, File.ann)
    /\ cap' = [open |-> TRUE, pos |-> 0]
    /\ idx' = 0
    /\ phase_counters' = EmptyMap
    /\ writers' = EmptyMap
    /\ previous_phase' = None
    /\ sinks' = <<>>
    /\ pc' = IF variant = "21" THEN "scan" ELSE "rows"
    /\ UNCHANGED <<variant, allPaths, log, tlVars, sVars>>

\* the main loop has visited every entry
Exit ==
    /\ pc = "main"
    /\ listing = <<>>
    /\ pc' = "exit"
    /\ UNCHANGED <<variant, listing, allPaths, log, tlVars, sVars>>
    /\ UNCHANGED caseVars

(***************************************************************************)
(* process_video of the interval variants (Cataract1k, cataract101)        *)
(***************************************************************************)
RowPhase(v, row) == IF v = "1k" THEN map_phase_name(row.comment)
                    ELSE row.PhaseName

RowStart(v, row) == IF v = "1k" THEN row.frame ELSE row.FrameNo

\* 1k: row['endFrame']; 101: the next row's FrameNo - 1, total_frames - 1
\* for the last row
RowEnd(v, rows, i, total) ==
    IF v = "1k" THEN rows[i].endFrame
    ELSE IF i < Len(rows) THEN rows[i + 1].FrameNo - 1 ELSE total - 1

\* loop head, create_writer, cap.set(CAP_PROP_POS_FRAMES, start_frame);
\* in cataract101 os.path.join raises TypeError on the float NaN
OpenSegment ==
    /\ pc = "rows"
    /\ idx < Len(df)
    /\ LET row == df[idx + 1]
           phase == RowPhase(variant, row)
           counters == Increment(phase_counters, phase)
           sink == NewSink(variant, phase,
                           get_case_number_from_filename(cur.name),
                           counters[phase], idx + 1)
       IN  /\ idx' = idx + 1
           /\ phase_counters' = counters
           /\ IF phase = NaN
              THEN /\ pc' = "TypeError"
                   /\ UNCHANGED <<sinks, allPaths, cap>>
              ELSE /\ pc' = "write"
                   /\ sinks' = Append(sinks, sink)
                   /\ allPaths' = Append(allPaths, sink.path)
                   /\ cap' = [cap EXCEPT !.pos = RowStart(variant, row)]
    /\ UNCHANGED <<variant, listing, cur, df, writers, previous_phase,
                   log, tlVars, sVars>>

\* for frame_number in range(start_frame, end_frame + 1): read, write
WriteFrames ==
    /\ pc = "write"
    /\ LET start_frame == RowStart(variant, df[idx])
           end_frame == RowEnd(variant, df, idx, cur.total)
           stop == StopFrame(start_frame, end_frame, cur.total, cur.bad)
       IN  /\ sinks' = WriteSink(sinks, Len(sinks),
                          WrittenFrames(start_frame, end_frame,
                                        cur.total, cur.bad))
           /\ cap' = [cap EXCEPT !.pos = IF stop > start_frame THEN stop
                                         ELSE start_frame]
    /\ pc' = "release"
    /\ UNCHANGED <<variant, listing, cur, df, idx, phase_counters, writers,
                   previous_phase, allPaths, log, tlVars, sVars>>

\* writer.release()
ReleaseWriter ==
    /\ pc = "release"
    /\ sinks' = ReleaseSink(sinks, Len(sinks))
    /\ pc' = "rows"
    /\ UNCHANGED <<variant, listing, cur, df, idx, phase_counters, writers,
                   previous_phase, cap, allPaths, log, tlVars, sVars>>

\* after the last row: cap.release()
FinishCase ==
    /\ pc = "rows"
    /\ idx = Len(df)
    /\ cap' = [cap EXCEPT !.open = FALSE]
    /\ pc' = "main"
    /\ UNCHANGED <<variant, listing, cur, df, idx, phase_counters, writers,
                   previous_phase, sinks, allPaths, tlVars, sVars>>
    /\ log' = Append(log, "processing_complete")

(***************************************************************************)
(* process_video of the label-stream variant (cataract21)                  *)
(***************************************************************************)
frames_to_process == Min(cur.total, Len(df))

\* for writer in writers.values(): writer.release()
RECURSIVE ReleaseAll(_, _)
ReleaseAll(ss, S) ==
    IF S = {} THEN ss
    ELSE LET j == CHOOSE x \in S : TRUE
         IN  ReleaseAll(ReleaseSink(ss, j), S \ {j})

Values(ws) == {ws[p] : p \in DOMAIN ws}

\* the previous writer left open at a change of label
ClosePreviousNever(ss, ws, prev) == ss

\* if previous_phase is not None and previous_phase in writers: release
ClosePrevious(ss, ws, prev) ==
    IF prev # None /\ prev \in DOMAIN ws THEN ReleaseSink(ss, ws[prev]) ELSE ss

Scanning == pc = "scan" /\ idx < frames_to_process

\* every frame taken for the first frame of a new run
PhaseChangedAlways(phase, prev) == TRUE

\* if phase != previous_phase
PhaseChanged(phase, prev) == phase # prev

\* cap.read() fails: break, then release every writer of the dict and cap
ReadFailed21 ==
    /\ Scanning
    /\ ~ReadOk(cap.pos, cur.total, cur.bad)
    /\ sinks' = ReleaseAll(sinks, Values(writers))
    /\ cap' = [cap EXCEPT !.open = FALSE]
    /\ pc' = "main"
    /\ UNCHANGED <<variant, listing, cur, df, idx, phase_counters, writers,
                   previous_phase, allPaths, tlVars, sVars>>
    /\ log' = Append(log, "processing_complete")

\* the frame carries the label of the previous frame: write it
SamePhase21 ==
    /\ Scanning
    /\ ReadOk(cap.pos, cur.total, cur.bad)
    /\ ~PhaseChanged(df[idx + 1].PhaseName, previous_phase)
    /\ sinks' = WriteSink(sinks, writers[previous_phase], <<idx>>)
    /\ cap' = [cap EXCEPT !.pos = @ + 1]
    /\ idx' = idx + 1
    /\ UNCHANGED <<variant, listing, cur, pc, df, phase_counters, writers,
                   previous_phase, allPaths, log, tlVars, sVars>>

\* the label changes (or it is the first frame): close the previous writer
PhaseChange21 ==
    /\ Scanning
    /\ ReadOk(cap.pos, cur.total, cur.bad)
    /\ PhaseChanged(df[idx + 1].PhaseName, previous_phase)
    /\ sinks' = ClosePrevious(sinks, writers, previous_phase)
    /\ cap' = [cap EXCEPT !.pos = @ + 1]
    /\ pc' = "create"
    /\ UNCHANGED <<variant, listing, cur, df, idx, phase_counters, writers,
                   previous_phase, allPaths, log, tlVars, sVars>>

\* writers[phase] = create_writer(...); write the frame; previous_phase = phase
CreateWriter21 ==
    /\ pc = "create"
    /\ LET phase == df[idx + 1].PhaseName
           counters == Increment(phase_counters, phase)
           sink == NewSink(variant, phase,
                           get_case_number_from_filename(cur.name),
                           counters[phase], idx)
       IN  /\ phase_counters' = counters
           /\ sinks' = WriteSink(Append(sinks, sink), Len(sinks) + 1, <<idx>>)
           /\ allPaths' = Append(allPaths, sink.path)
           /\ writers' = [p \in DOMAIN writers \cup {phase} |->
                             IF p = phase THEN Len(sinks) + 1 ELSE writers[p]]
           /\ previous_phase' = phase
    /\ idx' = idx + 1
    /\ pc' = "scan"
    /\ UNCHANGED <<variant, listing, cur, df, cap, log, tlVars, sVars>>

\* the loop has run frames_to_process times: release every writer and cap
LoopDone21 ==
    /\ pc = "scan"
    /\ idx = frames_to_process
    /\ sinks' = ReleaseAll(sinks, Values(writers))
    /\ cap' = [cap EXCEPT !.open = FALSE]
    /\ pc' = "main"
    /\ UNCHANGED <<variant, listing, cur, df, idx, phase_counters, writers,
                   previous_phase, allPaths, tlVars, sVars>>
    /\ log' = Append(log, "processing_complete")

SplitNext ==
    \/ GenerateCsvFiles
    \/ SkipOtherFile
    \/ RaiseNoCaseNumber
    \/ WarnNoVideoId
    \/ WarnNoPair
    \/ EmptyTable
    \/ OpenFailed
    \/ StartCase
    \/ Exit
    \/ OpenSegment
    \/ WriteFrames
    \/ ReleaseWriter
    \/ FinishCase
    \/ ReadFailed21
    \/ SamePhase21
    \/ PhaseChange21
    \/ CreateWriter21
    \/ LoopDone21

SIdle == sPc = "off" /\ sIn = <<>> /\ sRow = 0 /\ sI = 0 /\ sSel = <<>>

\* one extractor script run on one file
Init == SplitInit(SpecNames, 1, TRUE) /\ TlIdle /\ SIdle

Next == SplitNext

Spec == Init /\ [][Next]_vars

\* one extractor script run on a directory of several files
DsInit == SplitInit(DsNames, MaxFiles, FALSE) /\ TlIdle /\ SIdle

SpecDataset == DsInit /\ [][Next]_vars

\* cataract21_subvideo.py alone, run on one file
StreamInit == variant = "21" /\ SplitInit(SpecNames, 1, TRUE) /\ TlIdle /\ SIdle

StreamNext ==
    \/ SkipOtherFile
    \/ RaiseNoCaseNumber
    \/ WarnNoPair
    \/ EmptyTable
    \/ OpenFailed
    \/ StartCase
    \/ Exit
    \/ ReadFailed21
    \/ SamePhase21
    \/ PhaseChange21
    \/ CreateWriter21
    \/ LoopDone21

SpecStream == StreamInit /\ [][StreamNext]_vars

\* the timeline builders
TlNext ==
    \/ RunInsertIdlePhases
    \/ RunProcessPhases

TimelineInit == TlInit /\ SplitIdle /\ SIdle

SpecTimeline == TimelineInit /\ [][TlNext]_vars

(***************************************************************************)
(* frame_extractor.py save_frames.  Times are counted in half seconds and  *)
(* fps is a whole number, so int(sec * fps) is exact.  The sampling rate   *)
(* is the fraction num/den; start_frame + i * sampling_rate is a float     *)
(* product, which at an exact whole number may come out one ulp below it,  *)
(* so int() of it is that number or the one before.  cap.read and          *)
(* cv2.imwrite act on the selected frame and do not change the loop.       *)
(***************************************************************************)
SMaxFps == 3        \* frame rates 0..SMaxFps
SMaxFrames == 3     \* max_frames ranges over 1..SMaxFrames
SMaxSec2 == 3       \* sec and endsec range over 0..SMaxSec2 half seconds
SMaxRows == 2       \* rows of the phase table

\* min_sampling_rate as a fraction; MIN_SAMPLING_RATE = 0.3 is <<3, 10>>
SRates == {<<3, 10>>, <<1, 2>>}

\* int(sec * fps)
FrameOfSec(sec2, fps) == (sec2 * fps) \div 2

\* the sampling rate without its lower limit
SamplingRateUnclamped(total_frames, max_frames, msr, fps) ==
    [num |-> total_frames, den |-> max_frames]

\* sampling_rate = total_frames / max_frames, raised to
\* min_sampling_rate * fps when it is below it
SamplingRate(total_frames, max_frames, msr, fps) ==
    IF total_frames * msr[2] < msr[1] * fps * max_frames
    THEN [num |-> msr[1] * fps, den |-> msr[2]]
    ELSE [num |-> total_frames, den |-> max_frames]

\* the values int(start_frame + i * sampling_rate) can take
FrameNums(start_frame, i, rate) ==
    LET exact == start_frame + ((i * rate.num) \div rate.den)
    IN  IF i > 0 /\ (i * rate.num) % rate.den = 0 /\ rate.num % rate.den # 0
        THEN {exact, exact - 1}
        ELSE {exact}

\* for i in range(max_frames)
InRange(i, max_frames) == i < max_frames

\* the loop without its break
PastEndNever(frame_num, end_frame) == FALSE

\* if frame_num > end_frame: break
PastEnd(frame_num, end_frame) == frame_num > end_frame

SInit ==
    /\ \E fps \in 0..SMaxFps, max_frames \in 1..SMaxFrames, msr \in SRates :
       \E rows \in SeqsUpTo({[sec |-> a, endsec |-> b] :
                                a \in 0..SMaxSec2, b \in 0..SMaxSec2}, SMaxRows) :
          sIn = [fps |-> fps, max_frames |-> max_frames,
                 min_sampling_rate |-> msr, rows |-> rows]
    /\ sPc = "open"
    /\ sRow = 0
    /\ sI = 0
    /\ sSel = <<>>

SStart(row) == FrameOfSec(row.sec, sIn.fps)
SEnd(row) == FrameOfSec(row.endsec, sIn.fps)

\* "Error: Could not retrieve frame rate from video.", return
FpsZero ==
    /\ sPc = "open"
    /\ sIn.fps = 0
    /\ sPc' = "return"
    /\ UNCHANGED <<sIn, sRow, sI, sSel>>
    /\ UNCHANGED <<splitVars, tlVars>>

\* the video is open and has a frame rate: go to the loop over the rows
OpenVideo ==
    /\ sPc = "open"
    /\ sIn.fps # 0
    /\ sPc' = "rows"
    /\ UNCHANGED <<sIn, sRow, sI, sSel>>
    /\ UNCHANGED <<splitVars, tlVars>>

\* total_frames <= 0: "Invalid frame range ... Skipping.", continue
SkipPhase ==
    /\ sPc = "rows"
    /\ sRow < Len(sIn.rows)
    /\ SEnd(sIn.rows[sRow + 1]) - SStart(sIn.rows[sRow + 1]) <= 0
    /\ sRow' = sRow + 1
    /\ sSel' = Append(sSel, <<>>)
    /\ UNCHANGED <<sIn, sPc, sI>>
    /\ UNCHANGED <<splitVars, tlVars>>

\* a phase with frames: enter the loop over i
StartPhase ==
    /\ sPc = "rows"
    /\ sRow < Len(sIn.rows)
    /\ SEnd(sIn.rows[sRow + 1]) - SStart(sIn.rows[sRow + 1]) > 0
    /\ sRow' = sRow + 1
    /\ sSel' = Append(sSel, <<>>)
    /\ sI' = 0
    /\ sPc' = "frames"
    /\ UNCHANGED sIn
    /\ UNCHANGED <<splitVars, tlVars>>

\* one iteration that passes the break test: the frame is selected
SelectFrame ==
    /\ sPc = "frames"
    /\ InRange(sI, sIn.max_frames)
    /\ LET row == sIn.rows[sRow]
           rate == SamplingRate(SEnd(row) - SStart(row), sIn.max_frames,
                                sIn.min_sampling_rate, sIn.fps)
       IN  \E frame_num \in FrameNums(SStart(row), sI, rate) :
              /\ ~PastEnd(frame_num, SEnd(row))
              /\ sSel' = [sSel EXCEPT ![sRow] = Append(@, frame_num)]
    /\ sI' = sI + 1
    /\ UNCHANGED <<sIn, sPc, sRow>>
    /\ UNCHANGED <<splitVars, tlVars>>

\* the loop over i ends: range exhausted, or frame_num > end_frame
EndPhase ==
    /\ sPc = "frames"
    /\ \/ ~InRange(sI, sIn.max_frames)
       \/ /\ InRange(sI, sIn.max_frames)
          /\ LET row == sIn.rows[sRow]
                 rate == SamplingRate(SEnd(row) - SStart(row), sIn.max_frames,
                                      sIn.min_sampling_rate, sIn.fps)
             IN  \E frame_num \in FrameNums(SStart(row), sI, rate) :
                    PastEnd(frame_num, SEnd(row))
    /\ sPc' = "rows"
    /\ UNCHANGED <<sIn, sRow, sI, sSel>>
    /\ UNCHANGED <<splitVars, tlVars>>

\* after the last row: cap.release()
AllSaved ==
    /\ sPc = "rows"
    /\ sRow = Len(sIn.rows)
    /\ sPc' = "return"
    /\ UNCHANGED <<sIn, sRow, sI, sSel>>
    /\ UNCHANGED <<splitVars, tlVars>>

SNext ==
    \/ FpsZero
    \/ OpenVideo
    \/ SkipPhase
    \/ StartPhase
    \/ SelectFrame
    \/ EndPhase
    \/ AllSaved

SamplerInit == SInit /\ SplitIdle /\ TlIdle

SpecSampler == SamplerInit /\ [][SNext]_vars

(***************************************************************************)
(* Properties                                                              *)
(***************************************************************************)
TlStart(r) == IF "frame" \in DOMAIN r THEN r.frame ELSE r.StartFrame
TlEnd(r) == IF "frame" \in DOMAIN r THEN r.endFrame ELSE r.EndFrame

\* the rows are in frame order and do not overlap
Ordered(rows) ==
    \A i \in 1..(Len(rows) - 1) : TlEnd(rows[i]) < TlStart(rows[i + 1])

\* C1: every timeline built from a non-empty table is gap-free: each
\* interval ends one frame before the next one starts, the first interval
\* starts at frame 0 and the last one ends at totalFrames - 1.  (Stated for
\* tables whose rows are in frame order, disjoint and inside the video.)
C1_GapFreeTimeline ==
    tlPc \in {"insert_idle_phases", "process_phases"} /\ Ordered(tlRows) =>
        /\ \A i \in 1..(Len(tlOut) - 1) :
              TlEnd(tlOut[i]) + 1 = TlStart(tlOut[i + 1])
        /\ TlStart(tlOut[1]) = 0
        /\ TlEnd(tlOut[Len(tlOut)]) = tlTotal - 1

\* process_video has returned normally from the case held in cur
Returned ==
    /\ pc \in {"main", "exit"}
    /\ log # <<>>
    /\ log[Len(log)] = "processing_complete"

TimesWritten(f) ==
    Cardinality({ji \in UNION {{<<j, i>> : i \in 1..Len(sinks[j].frames)} :
                               j \in 1..Len(sinks)} :
                    sinks[ji[1]].frames[ji[2]] = f})

\* the annotation of the case fits its video: a label for every frame
\* (cataract21), rows in frame order, disjoint and inside the video (1k)
FitsVideo ==
    /\ variant = "21" => Len(df) >= cur.total
    /\ variant = "1k" =>
          /\ Ordered(cur.ann)
          /\ \A i \in 1..Len(cur.ann) : cur.ann[i].endFrame < cur.total

\* C2: after process_video finishes a case whose frames all decode, every
\* frame of [0, totalFrames - 1] has been written to exactly one segment.
\* (Stated for cases whose annotation fits the video.)
C2_FrameCoverage ==
    Returned /\ cur.bad = {} /\ FitsVideo =>
        \A f \in 0..(cur.total - 1) : TimesWritten(f) = 1

\* C3: on every exit of process_video, release has been called exactly
\* once on every sink opened for the case.
C3_ReleasedExactlyOnce ==
    pc \in {"main", "exit"} =>
        \A j \in 1..Len(sinks) : sinks[j].released = 1

\* C4: at most one sink is open at any point: every sink but the one
\* opened last has been released.
C4_AtMostOneOpenSink ==
    /\ \A j \in 1..(Len(sinks) - 1) : sinks[j].released >= 1
    /\ Cardinality({j \in 1..Len(sinks) : sinks[j].released = 0}) <= 1

\* a later segment with the label of an earlier one is open and written
C4_Witness ==
    \E i, j \in 1..Len(sinks) :
        /\ i < j
        /\ sinks[i].phase = sinks[j].phase
        /\ sinks[j].released = 0
        /\ sinks[j].frames # <<>>
        /\ sinks[i].frames # <<>>

EndsWith(s, t) ==
    Len(s) >= Len(t) /\ SubSeq(s, Len(s) - Len(t) + 1, Len(s)) = t

\* C5: the k-th sink of a case that carries a label has occurrence index k,
\* counted per label and per case; its file name ends with the label when
\* k = 1 and with the label followed by "_k" when k >= 2.
C5_OccurrenceNumbering ==
    \A j \in 1..Len(sinks) :
        LET k == Cardinality({i \in 1..j : sinks[i].phase = sinks[j].phase})
            label == <<"_">> \o LabelTokens(sinks[j].phase)
        IN  /\ sinks[j].occ = k
            /\ IF k = 1
               THEN EndsWith(sinks[j].path.file, label \o <<".mp4">>)
               ELSE EndsWith(sinks[j].path.file,
                             label \o <<"_">> \o DigitsOf(k) \o <<".mp4">>)

\* in the second case of a run a label is numbered from 1 again and its
\* second interval gets the suffix
C5_Witness ==
    /\ "processing_complete" \in Range(log)
    /\ pc \in {"rows", "write", "release", "scan", "create"}
    /\ \E i, j \in 1..Len(sinks) :
          /\ i < j
          /\ sinks[i].phase = sinks[j].phase
          /\ sinks[i].occ = 1
          /\ sinks[j].occ = 2
          /\ sinks[i].path \in Range(SubSeq(allPaths, 1, Len(allPaths) - Len(sinks)))

\* C6: over a whole run no two create_writer calls resolve to the same
\* output path.
C6_UniquePaths ==
    \A i, j \in 1..Len(allPaths) : i # j => allPaths[i] # allPaths[j]

\* the interval sink j was opened for
SegStart(j) ==
    IF variant = "21" THEN sinks[j].at ELSE RowStart(variant, df[sinks[j].at])

SegEnd(j) ==
    IF variant = "21"
    THEN CHOOSE e \in sinks[j].at..(frames_to_process - 1) :
            /\ \A g \in sinks[j].at..e : df[g + 1].PhaseName = sinks[j].phase
            /\ e = frames_to_process - 1
               \/ df[e + 2].PhaseName # sinks[j].phase
    ELSE RowEnd(variant, df, sinks[j].at, cur.total)

HasNext(j) ==
    IF variant = "21" THEN SegEnd(j) < frames_to_process - 1
    ELSE sinks[j].at < Len(df)

FromTo(a, b) == [i \in 1..(b - a + 1) |-> a + i - 1]

\* C7: when a frame fails to decode in the middle of a segment, the sink of
\* the segment is closed holding exactly the frames before the failure, and
\* the sink of the next interval is still opened and written.
C7_DecodeFailureRecovered ==
    Returned =>
        \A j \in 1..Len(sinks) : \A f \in cur.bad :
            /\ SegStart(j) < f
            /\ f <= SegEnd(j)
            /\ f < cur.total
            /\ \A g \in SegStart(j)..(f - 1) : g \notin cur.bad
            => /\ sinks[j].frames = FromTo(SegStart(j), f - 1)
               /\ sinks[j].released >= 1
               /\ HasNext(j) =>
                     /\ Len(sinks) > j
                     /\ ReadOk(SegStart(j + 1), cur.total, cur.bad)
                           /\ SegEnd(j + 1) >= SegStart(j + 1)
                        => sinks[j + 1].frames # <<>>

Normalized(table, raw) == IF raw \in DOMAIN table THEN table[raw] ELSE raw

\* C10: label normalization is total in the three conventions: a raw label
\* of the table maps to its canonical name, any other raw label is returned
\* unchanged, and neither a failure nor a missing value is produced.
C10_NormalizationTotal ==
    /\ pc # "TypeError"
    /\ variant = "1k" =>
          \A j \in 1..Len(sinks) :
              sinks[j].phase = Normalized(PHASE_MAPPING, df[sinks[j].at].comment)
    /\ variant = "101" =>
          \A i \in 1..Len(df) :
              /\ df[i].PhaseName # NaN
              /\ df[i].PhaseName = Normalized(phase_mapping101, df[i].Phase)
    /\ variant = "21" =>
          \A i \in 1..Len(df) :
              df[i].PhaseName = Normalized(phase_mapping21, cur.ann[i].PhaseName)

SelSpan(r) == SEnd(sIn.rows[r]) - SStart(sIn.rows[r])

\* C8: for an interval with endFrame > startFrame save_frames selects at
\* most max_frames indices, all within [startFrame, endFrame]; for an
\* interval with endFrame - startFrame <= 0 it selects none and goes on to
\* the next interval.
C8_SamplingBound ==
    /\ \A r \in 1..Len(sSel) :
          /\ Len(sSel[r]) <= sIn.max_frames
          /\ \A k \in 1..Len(sSel[r]) :
                /\ SStart(sIn.rows[r]) <= sSel[r][k]
                /\ sSel[r][k] <= SEnd(sIn.rows[r])
          /\ SelSpan(r) <= 0 => sSel[r] = <<>>
    /\ sPc = "return" /\ sIn.fps > 0 => Len(sSel) = Len(sIn.rows)

\* an interval without frames is skipped and the next one is sampled up to
\* max_frames
C8_Witness ==
    \E r \in 2..Len(sSel) :
        /\ SelSpan(r - 1) <= 0
        /\ SelSpan(r) > 0
        /\ sIn.max_frames >= 2
        /\ Len(sSel[r]) = sIn.max_frames

\* span / max_frames >= min_sampling_rate * fps
WideEnough(r) ==
    SelSpan(r) * sIn.min_sampling_rate[2]
        >= sIn.min_sampling_rate[1] * sIn.fps * sIn.max_frames

\* C9 as stated: the selected indices of an interval are strictly
\* increasing, and whenever span / max_frames >= min_sampling_rate * fps
\* consecutive indices differ by at least min_sampling_rate * fps.
C9_StrictlyIncreasingSpaced ==
    \A r \in 1..Len(sSel) : \A k \in 1..(Len(sSel[r]) - 1) :
        /\ sSel[r][k] < sSel[r][k + 1]
        /\ WideEnough(r) =>
              (sSel[r][k + 1] - sSel[r][k]) * sIn.min_sampling_rate[2]
                  >= sIn.min_sampling_rate[1] * sIn.fps

\* max(span / max_frames, min_sampling_rate * fps) >= 1
StepAtLeastOne(r) ==
    \/ SelSpan(r) >= sIn.max_frames
    \/ sIn.min_sampling_rate[1] * sIn.fps >= sIn.min_sampling_rate[2]

\* C9 amended: the selected indices of an interval never decrease; they are
\* strictly increasing whenever the sampling step is at least one frame;
\* and whenever span / max_frames >= min_sampling_rate * fps consecutive
\* indices differ by more than min_sampling_rate * fps - 1.
C9_IncreasingUpToTruncation ==
    \A r \in 1..Len(sSel) : \A k \in 1..(Len(sSel[r]) - 1) :
        /\ sSel[r][k] <= sSel[r][k + 1]
        /\ StepAtLeastOne(r) => sSel[r][k] < sSel[r][k + 1]
        /\ WideEnough(r) =>
              (sSel[r][k + 1] - sSel[r][k] + 1) * sIn.min_sampling_rate[2]
                  > sIn.min_sampling_rate[1] * sIn.fps

\* an interval wide enough for max_frames samples at the minimum spacing,
\* sampled with a step of 1.5 frames
C9_Witness ==
    \E r \in 1..Len(sSel) :
        /\ WideEnough(r)
        /\ StepAtLeastOne(r)
        /\ Len(sSel[r]) >= 2
        /\ (SelSpan(r) * 2) % (sIn.max_frames * 2) # 0

(***************************************************************************)
(* The dataset loop and the failures of one case                           *)
(***************************************************************************)
\* an entry the main loop hands to process_video and whose video opens
Awaits(e) ==
    /\ e.ext = TargetExt(variant)
    /\ IF variant = "101" THEN MatchCase(e.name) ELSE MatchIgnoreCase(e.name)
    /\ e.pair
    /\ Len(e.ann) > 0
    /\ e.opens

\* the run has ended at a file name without a case number or at a table
\* without rows
CaseFailureEndedRun == pc \in {"ValueError", "IndexError", "EmptyDataError"}

\* C11: a failure that belongs to one case (no parseable case identifier,
\* a table with no rows, a missing pair, a video that cannot be opened)
\* skips only that case: no case that the loop would process is left
\* unvisited when the run ends at such a failure.
C11_CaseFailureIsolated ==
    CaseFailureEndedRun => \A i \in 1..Len(listing) : ~Awaits(listing[i])

(***************************************************************************)
(* The case number in an output file name                                  *)
(***************************************************************************)
\* the characters of a file name between "ID" and the next "_"
IdDigits(file) ==
    LET stop == CHOOSE i \in 3..Len(file) :
                    file[i] = "_" /\ \A k \in 3..(i - 1) : file[k] # "_"
    IN  SubSeq(file, 3, stop - 1)

\* C12: in every output file name the case number that follows "ID" is the
\* number of the case being processed, zero-padded to exactly 4 digits, in
\* all three variants.
C12_FourDigitCaseNumber ==
    \A j \in 1..Len(sinks) :
        /\ sinks[j].path.file[2] = "ID"
        /\ Len(IdDigits(sinks[j].path.file)) = 4
        /\ IntOf(IdDigits(sinks[j].path.file)) = IntOf(cur.name.digits)

(***************************************************************************)
(* Synthetic Idle intervals                                                *)
(***************************************************************************)
\* the Idle intervals the gaps of a table in start-frame order call for
ExpectedIdle(sorted) ==
    (IF sorted[1].StartFrame # 0
     THEN {IdlePhaseCsv(0, sorted[1].StartFrame - 1)} ELSE {})
    \cup {IdlePhaseCsv(sorted[i].EndFrame + 1, sorted[i + 1].StartFrame - 1) :
            i \in {k \in 1..(Len(sorted) - 1) :
                      sorted[k + 1].StartFrame - sorted[k].EndFrame > 1}}

IdleRows(rows) == {r \in Range(rows) : r.phase_name = "Idle"}

\* process_phases adds a leading Idle exactly when the first interval does
\* not start at frame 0, a gap Idle exactly when startFrame[i+1] -
\* endFrame[i] > 1, and no Idle with EndFrame < StartFrame
IdleExactlyInGaps ==
    tlPc = "process_phases" =>
        /\ \E sorted \in sort_values(tlRows, StartKeys(tlRows)) :
              IdleRows(tlOut) = ExpectedIdle(sorted)
        /\ \A r \in Range(tlOut) : r.EndFrame >= r.StartFrame

\* C13: a synthetic Idle interval is added only where it covers at least
\* one frame: no Idle interval with endFrame < startFrame is produced.  In
\* cataract101 the row generate_csv_files prepends is the first row of the
\* table, and its segment is the first sink of the case; in phase_csv the
\* Idle rows are exactly those of the gaps.
C13_IdleOnlyWhereFrames ==
    /\ variant = "101" =>
          \A j \in 1..Len(sinks) :
              sinks[j].at = 1 => SegEnd(j) >= SegStart(j)
    /\ IdleExactlyInGaps

(***************************************************************************)
(* The start-frame event convention (cataract101)                          *)
(***************************************************************************)
\* the end the convention gives row i of a table: the next row's start
\* frame minus 1, totalFrames - 1 for the last row
EventEnd(rows, i, total) ==
    IF i = Len(rows) THEN total - 1 ELSE rows[i + 1].FrameNo - 1

\* C14: in cataract101 every segment of an annotated row ends at the next
\* row's start frame minus 1 (the last one at totalFrames - 1): a released
\* sink of a fully decodable video holds exactly the frames from its row's
\* start frame to that end, and that end is never below the start frame.
\* (Stated for the rows of the annotation, which follow the prepended row.)
C14_EventIntervalsWellFormed ==
    variant = "101" =>
        \A j \in 1..Len(sinks) :
            LET i == sinks[j].at
                startFrame == df[i].FrameNo
                endFrame == EventEnd(df, i, cur.total)
            IN  i >= 2 =>
                   /\ endFrame >= startFrame
                   /\ /\ sinks[j].released >= 1
                      /\ endFrame < cur.total
                      /\ \A f \in startFrame..endFrame : f \notin cur.bad
                      => sinks[j].frames = FromTo(startFrame, endFrame)

(***************************************************************************)
(* The per-frame label-stream convention (cataract21)                      *)
(***************************************************************************)
\* the normalized label of frame f of the case's label stream
LabelOf(f) == Normalized(phase_mapping21, cur.ann[f + 1].PhaseName)

\* the labelled prefix of the video: min(totalFrames, number of labels)
Prefix == Min(cur.total, Len(cur.ann))

\* frame 0 and every frame whose label differs from the previous frame's
RunStarts ==
    {f \in 0..(Prefix - 1) : f = 0 \/ LabelOf(f) # LabelOf(f - 1)}

\* the last frame of the maximal run of equal labels that starts at frame s
RunEnd(s) ==
    CHOOSE e \in s..(Prefix - 1) :
        /\ \A g \in s..e : LabelOf(g) = LabelOf(s)
        /\ e = Prefix - 1 \/ LabelOf(e + 1) # LabelOf(s)

PrefixDecodes == \A f \in 0..(Prefix - 1) : f \notin cur.bad

\* C15: after cataract21 process_video finishes a case whose labelled
\* prefix decodes, the segments are exactly the maximal runs of equal
\* normalized labels over the first min(totalFrames, number of labels)
\* frames: one segment opened at frame 0 and at every change of label,
\* holding the frames of its run in order under the run's label, and no
\* frame beyond the labelled prefix in any segment.
C15_RunLengthSegments ==
    variant = "21" /\ Returned /\ PrefixDecodes =>
        /\ {sinks[j].at : j \in 1..Len(sinks)} = RunStarts
        /\ Len(sinks) = Cardinality(RunStarts)
        /\ \A j \in 1..Len(sinks) :
              /\ sinks[j].phase = LabelOf(sinks[j].at)
              /\ sinks[j].frames = FromTo(sinks[j].at, RunEnd(sinks[j].at))
              /\ \A i \in 1..Len(sinks[j].frames) :
                    sinks[j].frames[i] < Prefix

\* a finished case with a run of two frames followed by a run of another
\* label
C15_Witness ==
    /\ variant = "21" /\ Returned /\ PrefixDecodes
    /\ \E j \in 1..(Len(sinks) - 1) :
          /\ Len(sinks[j].frames) >= 2
          /\ sinks[j + 1].phase # sinks[j].phase
          /\ sinks[j + 1].frames # <<>>

====
